---- MODULE Spec2Model ----
(***************************************************************************)
(* The cursor / viewport navigation state machine of the pepe viewer       *)
(* (src/src/input.rs), driven by the event loop of src/src/main.rs and     *)
(* painted by src/src/render.rs.                                           *)
(*                                                                         *)
(* Option<T> is a sequence of length 0 (None) or 1 (Some(x)).  A line of   *)
(* the document is a sequence of one-character strings.  A panic ends the  *)
(* process: the variable `panic` names its kind and every other variable   *)
(* keeps the value it had before the step that panicked.                   *)
(*                                                                         *)
(* usize arithmetic is kept modulo USIZE (a reduced width, TLC's integers  *)
(* are 32 bits wide) and u16 arithmetic modulo U16.  An overflowing        *)
(* operation panics when the build has overflow checks (debug profile) and *)
(* wraps when it has not (release profile); `overflow_checks` is the       *)
(* build's choice, fixed at start.                                         *)
(***************************************************************************)
EXTENDS Integers, Sequences, FiniteSets, TLC

VARIABLES
    doc,             \* Option<Document>: <<>> or <<inner_lines>>
    cursor,          \* Cursor {column, row}
    editor_state,    \* EditorState {doc_lines, running, rows, columns}
    cursor_state,    \* CursorState {last_column, last_padding, scroll_y}
    render_state,    \* RenderState {modif_row, modif_all, last_cursor, modif_status}
    term_size,       \* what terminal::size() answers: {columns, rows}
    overflow_checks, \* the build panics on integer overflow (else it wraps)
    pc,              \* position of main's loop
    panic,           \* "none", or the kind of the panic that ended the process
    painted,         \* what the last refresh_screen repainted
    event,           \* the event process_keypress has just handled
    prev,            \* Cursor and CursorState when that event arrived
    file,            \* the file named by the process argument, if any
    raw_mode         \* the terminal is in raw mode

vars == <<doc, cursor, editor_state, cursor_state, render_state, term_size,
          overflow_checks, pc, panic, painted, event, prev, file, raw_mode>>

----------------------------------------------------------------------------
(* Bounds of the model *)

MaxDocLines == 5
MaxTermRows == 5
MaxClickRow == 3
MaxScrollY == 7
LongDocLines == 136
MaxFileLen == 4

(* Widths of the integer types *)
U16 == 2^16
USIZE == 2^24

None == <<>>
Some(x) == <<x>>

Min(a, b) == IF a <= b THEN a ELSE b

(* The lines documents are made of *)
LinePool ==
    << <<" ", " ", "a", " ", "b">>,
       <<>>,
       <<" ">>,
       <<"a", "b">>,
       <<"\t", "a">> >>

(* A document of n lines: the pool, read cyclically from its k-th line *)
DocOf(n, k) == [i \in 1..n |-> LinePool[((i + k) % Len(LinePool)) + 1]]

Documents == {DocOf(n, k) : n \in 0..MaxDocLines, k \in 0..(Len(LinePool) - 1)}

(* The lines "    foo", "  bar" and "  hello world" *)
LineFoo == <<" ", " ", " ", " ", "f", "o", "o">>
LineBar == <<" ", " ", "b", "a", "r">>
LineHelloWorld ==
    <<" ", " ", "h", "e", "l", "l", "o", " ", "w", "o", "r", "l", "d">>

(* A document of indented lines and of a line of two words *)
ExampleDocuments == { <<LineFoo, LineBar, LineHelloWorld, <<"a">> >> }

TermSizes == [columns : {12}, rows : 1..MaxTermRows]

SHIFT == "SHIFT"
CONTROL == "CONTROL"
KeyModifiers == SUBSET {SHIFT, CONTROL}

ClickColumns == {0, 5, 9}

----------------------------------------------------------------------------
(* Integer arithmetic of the build *)

\* a - b on usize, wrapped
WSub(a, b) == (a - b + USIZE) % USIZE

\* a + b on usize, wrapped
WAdd(a, b) == (a + b) % USIZE

\* a - b on usize overflows
SubOverflows(a, b) == a < b

\* a + b on usize overflows
AddOverflows(a, b) == a + b >= USIZE

\* a.checked_sub(b).unwrap_or(0)
CheckedSubOr0(a, b) == IF a >= b THEN a - b ELSE 0

\* u8::is_ascii_whitespace
is_ascii_whitespace(ch) == ch \in {" ", "\t", "\n", "\f", "\r"}

\* The context the methods of Cursor work on, and its panicked form
Ctx(c, cs, rs) == [cursor |-> c, cursor_state |-> cs, render_state |-> rs,
                   panic |-> "none"]

Panic(ctx, kind) == [ctx EXCEPT !.panic = kind]

----------------------------------------------------------------------------
(* impl Cursor: the column adjustments *)

\* The count of leading ASCII-whitespace bytes of a line, from p on
RECURSIVE curr_padding(_, _)
curr_padding(line, p) ==
    IF p < Len(line) /\ is_ascii_whitespace(line[p + 1])
    THEN curr_padding(line, p + 1)
    ELSE p

\* curr_line.len().checked_sub(1).unwrap_or(0)
max_col(line) == CheckedSubOr0(Len(line), 1)

\* The panic, if any, of the lookup doc.inner_lines[scroll_y + row]
LookupPanic(lines, scroll_y, row) ==
    IF overflow_checks /\ AddOverflows(scroll_y, row) THEN "overflow"
    ELSE IF WAdd(scroll_y, row) >= Len(lines) THEN "index"
    ELSE "none"

\* doc.inner_lines[scroll_y + row], when the lookup does not panic
curr_line(lines, scroll_y, row) == lines[WAdd(scroll_y, row) + 1]

\* adjust_column_vertical taking its Control branch whatever the modifiers
adjust_column_vertical_raw(ctx, lines, modifiers) ==
    LET c  == ctx.cursor
        cs == ctx.cursor_state
    IN  IF ctx.panic # "none" THEN ctx
        ELSE IF ~(cs.scroll_y < 134) THEN Panic(ctx, "assert")
        ELSE IF LookupPanic(lines, cs.scroll_y, c.row) # "none"
             THEN Panic(ctx, LookupPanic(lines, cs.scroll_y, c.row))
        ELSE
            LET line == curr_line(lines, cs.scroll_y, c.row)
            IN  [ctx EXCEPT
                    !.cursor_state.last_padding = curr_padding(line, 0),
                    !.cursor.column =
                        IF cs.last_column THEN max_col(line)
                        ELSE Min(max_col(line), c.column)]

\* adjust_column_vertical shifting by the padding whatever the modifiers
adjust_column_vertical_padded(ctx, lines, modifiers) ==
    LET c  == ctx.cursor
        cs == ctx.cursor_state
    IN  IF ctx.panic # "none" THEN ctx
        ELSE IF ~(cs.scroll_y < 134) THEN Panic(ctx, "assert")
        ELSE IF LookupPanic(lines, cs.scroll_y, c.row) # "none"
             THEN Panic(ctx, LookupPanic(lines, cs.scroll_y, c.row))
        ELSE
            LET line    == curr_line(lines, cs.scroll_y, c.row)
                p       == curr_padding(line, 0)
                shifted == c.column + p - cs.last_padding
            IN  [ctx EXCEPT
                    !.cursor_state.last_padding = p,
                    !.cursor.column =
                        IF cs.last_column THEN max_col(line)
                        ELSE Min(max_col(line),
                                 IF shifted < 0 THEN 0 ELSE shifted)]

\* adjust_column_vertical without the sticky end of line
adjust_column_vertical_nosnap(ctx, lines, modifiers) ==
    LET c  == ctx.cursor
        cs == ctx.cursor_state
    IN  IF ctx.panic # "none" THEN ctx
        ELSE IF ~(cs.scroll_y < 134) THEN Panic(ctx, "assert")
        ELSE IF LookupPanic(lines, cs.scroll_y, c.row) # "none"
             THEN Panic(ctx, LookupPanic(lines, cs.scroll_y, c.row))
        ELSE
            LET line    == curr_line(lines, cs.scroll_y, c.row)
                p       == curr_padding(line, 0)
                shifted == c.column + p - cs.last_padding
            IN  [ctx EXCEPT
                    !.cursor_state.last_padding = p,
                    !.cursor.column =
                        Min(max_col(line),
                            IF CONTROL \in modifiers THEN c.column
                            ELSE IF shifted < 0 THEN 0 ELSE shifted)]

adjust_column_vertical(ctx, lines, modifiers) ==
    LET c  == ctx.cursor
        cs == ctx.cursor_state
    IN  IF ctx.panic # "none" THEN ctx
        ELSE IF ~(cs.scroll_y < 134) THEN Panic(ctx, "assert")
        ELSE IF LookupPanic(lines, cs.scroll_y, c.row) # "none"
             THEN Panic(ctx, LookupPanic(lines, cs.scroll_y, c.row))
        ELSE
            LET line    == curr_line(lines, cs.scroll_y, c.row)
                p       == curr_padding(line, 0)
                padding == p - cs.last_padding
                new_column ==
                    IF CONTROL \notin modifiers
                    THEN (IF c.column + padding < 0 THEN 0
                          ELSE c.column + padding)
                    ELSE c.column
            IN  [ctx EXCEPT
                    !.cursor_state.last_padding = p,
                    !.cursor.column =
                        IF cs.last_column THEN max_col(line)
                        ELSE Min(max_col(line), new_column)]

\* The start of line taken to be column 0: the padding is recorded but the
\* cursor is not put on it
adjust_column_start_zero(ctx, lines) ==
    LET c  == ctx.cursor
        cs == ctx.cursor_state
    IN  IF ctx.panic # "none" THEN ctx
        ELSE IF LookupPanic(lines, cs.scroll_y, c.row) # "none"
             THEN Panic(ctx, LookupPanic(lines, cs.scroll_y, c.row))
        ELSE
            LET p == curr_padding(curr_line(lines, cs.scroll_y, c.row), 0)
            IN  [ctx EXCEPT !.cursor_state.last_padding = p,
                            !.cursor.column = 0]

adjust_column_start(ctx, lines) ==
    LET c  == ctx.cursor
        cs == ctx.cursor_state
    IN  IF ctx.panic # "none" THEN ctx
        ELSE IF LookupPanic(lines, cs.scroll_y, c.row) # "none"
             THEN Panic(ctx, LookupPanic(lines, cs.scroll_y, c.row))
        ELSE
            LET p == curr_padding(curr_line(lines, cs.scroll_y, c.row), 0)
            IN  [ctx EXCEPT !.cursor_state.last_padding = p,
                            !.cursor.column = p]

\* adjust_column_end placing the cursor at len(line), one past the last index
adjust_column_end_past(ctx, lines) ==
    LET c  == ctx.cursor
        cs == ctx.cursor_state
    IN  IF ctx.panic # "none" THEN ctx
        ELSE IF LookupPanic(lines, cs.scroll_y, c.row) # "none"
             THEN Panic(ctx, LookupPanic(lines, cs.scroll_y, c.row))
        ELSE
            LET line == curr_line(lines, cs.scroll_y, c.row)
            IN  [ctx EXCEPT !.cursor_state.last_padding = curr_padding(line, 0),
                            !.cursor_state.last_column = FALSE,
                            !.cursor.column = Len(line)]

adjust_column_end(ctx, lines) ==
    LET c  == ctx.cursor
        cs == ctx.cursor_state
    IN  IF ctx.panic # "none" THEN ctx
        ELSE IF LookupPanic(lines, cs.scroll_y, c.row) # "none"
             THEN Panic(ctx, LookupPanic(lines, cs.scroll_y, c.row))
        ELSE
            LET line == curr_line(lines, cs.scroll_y, c.row)
            IN  [ctx EXCEPT !.cursor_state.last_padding = curr_padding(line, 0),
                            !.cursor_state.last_column = FALSE,
                            !.cursor.column = max_col(line)]

\* The test of adjust_column_random made strict: only a column past the last
\* index counts
adjust_column_random_strict(ctx, lines) ==
    LET c  == ctx.cursor
        cs == ctx.cursor_state
    IN  IF ctx.panic # "none" THEN ctx
        ELSE IF LookupPanic(lines, cs.scroll_y, c.row) # "none"
             THEN Panic(ctx, LookupPanic(lines, cs.scroll_y, c.row))
        ELSE
            LET line == curr_line(lines, cs.scroll_y, c.row)
                ctx1 == [ctx EXCEPT
                            !.cursor_state.last_padding = curr_padding(line, 0)]
            IN  IF max_col(line) < c.column
                THEN [ctx1 EXCEPT !.cursor_state.last_column = TRUE,
                                  !.cursor.column = max_col(line)]
                ELSE ctx1

adjust_column_random(ctx, lines) ==
    LET c  == ctx.cursor
        cs == ctx.cursor_state
    IN  IF ctx.panic # "none" THEN ctx
        ELSE IF LookupPanic(lines, cs.scroll_y, c.row) # "none"
             THEN Panic(ctx, LookupPanic(lines, cs.scroll_y, c.row))
        ELSE
            LET line == curr_line(lines, cs.scroll_y, c.row)
                ctx1 == [ctx EXCEPT
                            !.cursor_state.last_padding = curr_padding(line, 0)]
            IN  IF max_col(line) <= c.column
                THEN [ctx1 EXCEPT !.cursor_state.last_column = TRUE,
                                  !.cursor.column = max_col(line)]
                ELSE ctx1

----------------------------------------------------------------------------
(* impl Cursor: the moves of the viewport *)

move_up(ctx) ==
    LET c  == ctx.cursor
        cs == ctx.cursor_state
    IN  IF ctx.panic # "none" THEN ctx
        ELSE IF c.row = 0
        THEN IF cs.scroll_y > 0
             THEN [ctx EXCEPT !.render_state.modif_all = TRUE,
                              !.cursor_state.scroll_y = cs.scroll_y - 1]
             ELSE ctx
        ELSE [ctx EXCEPT !.render_state.last_cursor = Some(c),
                         !.cursor.row = c.row - 1]

\* A subtraction of doc_lines - scroll_y - 1 panics
LastRowPanics(doc_lines, scroll_y) ==
    overflow_checks
    /\ (SubOverflows(doc_lines, scroll_y)
        \/ SubOverflows(doc_lines - scroll_y, 1))

\* doc_lines - scroll_y - 1: the viewport row of the last document line
LastRow(doc_lines, scroll_y) == WSub(WSub(doc_lines, scroll_y), 1)

\* move_down that never scrolls: at the bottom row of the viewport it stays
move_down_no_scroll(ctx, es) ==
    LET c  == ctx.cursor
        cs == ctx.cursor_state
    IN  IF ctx.panic # "none" THEN ctx
        ELSE IF overflow_checks /\ SubOverflows(es.rows, 1)
             THEN Panic(ctx, "overflow")
        ELSE IF c.row = WSub(es.rows, 1)
        THEN IF overflow_checks /\ SubOverflows(es.doc_lines, es.rows)
             THEN Panic(ctx, "overflow")
             ELSE IF cs.scroll_y < WSub(es.doc_lines, es.rows)
             THEN ctx
             ELSE ctx
        ELSE IF cs.scroll_y # 0 \/ es.doc_lines # 0
        THEN IF LastRowPanics(es.doc_lines, cs.scroll_y)
             THEN Panic(ctx, "overflow")
             ELSE IF c.row < LastRow(es.doc_lines, cs.scroll_y)
             THEN [ctx EXCEPT !.render_state.last_cursor = Some(c),
                              !.cursor.row = c.row + 1]
             ELSE ctx
        ELSE ctx

move_down(ctx, es) ==
    LET c  == ctx.cursor
        cs == ctx.cursor_state
    IN  IF ctx.panic # "none" THEN ctx
        ELSE IF overflow_checks /\ SubOverflows(es.rows, 1)
             THEN Panic(ctx, "overflow")
        ELSE IF c.row = WSub(es.rows, 1)
        THEN IF overflow_checks /\ SubOverflows(es.doc_lines, es.rows)
             THEN Panic(ctx, "overflow")
             ELSE IF cs.scroll_y < WSub(es.doc_lines, es.rows)
             THEN [ctx EXCEPT !.render_state.modif_all = TRUE,
                              !.cursor_state.scroll_y = cs.scroll_y + 1]
             ELSE ctx
        ELSE IF cs.scroll_y # 0 \/ es.doc_lines # 0
        THEN IF LastRowPanics(es.doc_lines, cs.scroll_y)
             THEN Panic(ctx, "overflow")
             ELSE IF c.row < LastRow(es.doc_lines, cs.scroll_y)
             THEN [ctx EXCEPT !.render_state.last_cursor = Some(c),
                              !.cursor.row = c.row + 1]
             ELSE ctx
        ELSE ctx

\* page_up without its normal branch: it always snaps to the top
page_up_snaps(ctx, es) ==
    IF ctx.panic # "none" THEN ctx
    ELSE [ctx EXCEPT !.render_state.last_cursor = Some(ctx.cursor),
                     !.cursor_state.scroll_y = 0,
                     !.cursor.row = 0]

page_up(ctx, es) ==
    LET c  == ctx.cursor
        cs == ctx.cursor_state
    IN  IF ctx.panic # "none" THEN ctx
        ELSE IF cs.scroll_y >= es.rows
        THEN [ctx EXCEPT !.render_state.modif_all = TRUE,
                         !.cursor_state.scroll_y = cs.scroll_y - es.rows]
        ELSE [ctx EXCEPT !.render_state.last_cursor = Some(c),
                         !.cursor_state.scroll_y = 0,
                         !.cursor.row = 0]

page_down(ctx, es) ==
    LET c  == ctx.cursor
        cs == ctx.cursor_state
    IN  IF ctx.panic # "none" THEN ctx
        ELSE IF overflow_checks /\ AddOverflows(cs.scroll_y, es.rows)
             THEN Panic(ctx, "overflow")
        ELSE IF WAdd(cs.scroll_y, es.rows) <= es.doc_lines
        THEN [ctx EXCEPT !.render_state.modif_all = TRUE,
                         !.cursor_state.scroll_y = WAdd(cs.scroll_y, es.rows)]
        ELSE IF es.rows = 0 THEN Panic(ctx, "divide by zero")
        ELSE [ctx EXCEPT !.render_state.last_cursor = Some(c),
                         !.cursor.row = CheckedSubOr0(es.doc_lines % es.rows, 1)]

\* A scroll that asks for the repaint of the cursor's row on top of the full
\* repaint
scroll_down_marks_row(ctx, es) ==
    [ctx EXCEPT !.render_state.modif_all = TRUE,
                !.render_state.modif_row = Some(ctx.cursor.row)]

scroll_down(ctx, es) ==
    LET c  == ctx.cursor
        cs == ctx.cursor_state
    IN  IF ctx.panic # "none" THEN ctx
        ELSE IF cs.scroll_y # 0 \/ es.doc_lines # 0
        THEN IF LastRowPanics(es.doc_lines, cs.scroll_y)
             THEN Panic(ctx, "overflow")
             ELSE IF c.row < LastRow(es.doc_lines, cs.scroll_y)
             THEN IF overflow_checks /\ AddOverflows(cs.scroll_y, 1)
                  THEN Panic(ctx, "overflow")
                  ELSE [ctx EXCEPT
                          !.render_state.modif_all = TRUE,
                          !.cursor_state.scroll_y = WAdd(cs.scroll_y, 1),
                          !.cursor.row = IF c.row # 0 THEN c.row - 1
                                         ELSE c.row]
             ELSE ctx
        ELSE ctx

scroll_up(ctx, es) ==
    LET c  == ctx.cursor
        cs == ctx.cursor_state
    IN  IF ctx.panic # "none" THEN ctx
        ELSE IF c.row = 0
        THEN IF cs.scroll_y > 0
             THEN [ctx EXCEPT !.render_state.modif_all = TRUE,
                              !.cursor_state.scroll_y = cs.scroll_y - 1,
                              !.cursor.row = c.row + 1]
             ELSE ctx
        \* `else if *scroll_y >= 0`: always true of a usize
        ELSE IF overflow_checks
                /\ (SubOverflows(cs.scroll_y, 1) \/ SubOverflows(es.rows, 1))
             THEN Panic(ctx, "overflow")
        ELSE [ctx EXCEPT !.render_state.modif_all = TRUE,
                         !.cursor_state.scroll_y = WSub(cs.scroll_y, 1),
                         !.cursor.row = IF c.row # WSub(es.rows, 1)
                                        THEN WAdd(c.row, 1) ELSE c.row]

----------------------------------------------------------------------------
(* process_keypress: the handlers of the events *)

\* Control+Right on a space: advance while the run of spaces continues
RECURSIVE skip_spaces_right(_, _)
skip_spaces_right(line, new_col) ==
    IF new_col <= max_col(line) /\ line[new_col + 1] = " "
    THEN skip_spaces_right(line, new_col + 1)
    ELSE new_col

\* Control+Right on a word: advance to the end of the run of non-spaces
RECURSIVE skip_word_right(_, _)
skip_word_right(line, new_col) ==
    IF new_col < max_col(line) /\ line[new_col + 1] # " "
    THEN skip_word_right(line, new_col + 1)
    ELSE new_col

\* The second loop of Control+Right left out: the move stops after the word
skip_gap_right_none(line, new_col) == new_col

\* Control+Right on a word: then advance through the following spaces
RECURSIVE skip_gap_right(_, _)
skip_gap_right(line, new_col) ==
    IF new_col < max_col(line) /\ line[new_col + 1] = " "
    THEN skip_gap_right(line, new_col + 1)
    ELSE new_col

\* Control+Left: retreat while the run of spaces continues
RECURSIVE skip_spaces_left(_, _)
skip_spaces_left(line, new_col) ==
    IF new_col # 0 /\ line[new_col + 1] = " "
    THEN skip_spaces_left(line, new_col - 1)
    ELSE new_col

\* The first loop of Control+Left left out: the word is not retreated through
skip_word_left_none(line, new_col) == new_col

\* Control+Left on a word: retreat through the run of non-spaces
RECURSIVE skip_word_left(_, _)
skip_word_left(line, new_col) ==
    IF new_col # 0 /\ line[new_col + 1] # " "
    THEN skip_word_left(line, new_col - 1)
    ELSE new_col

\* Event::Key(Up)
key_up(ctx, es, modifiers) ==
    LET moved == IF SHIFT \in modifiers THEN page_up(ctx, es)
                 ELSE move_up(ctx)
    IN  IF doc # None
        THEN adjust_column_vertical(moved, doc[1], modifiers)
        ELSE IF moved.panic # "none" THEN moved
        ELSE [moved EXCEPT !.cursor.row = 0]

\* Event::Key(Down)
key_down(ctx, es, modifiers) ==
    LET moved == IF SHIFT \in modifiers THEN page_down(ctx, es)
                 ELSE move_down(ctx, es)
    IN  IF doc # None
        THEN adjust_column_vertical(moved, doc[1], modifiers)
        ELSE IF moved.panic # "none" THEN moved
        ELSE [moved EXCEPT !.cursor.row = 0]

\* Event::Key(Right)
key_right(ctx, es, modifiers) ==
    LET c  == ctx.cursor
        cs == ctx.cursor_state
    IN  IF doc = None THEN ctx
        ELSE IF LookupPanic(doc[1], cs.scroll_y, c.row) # "none"
             THEN Panic(ctx, LookupPanic(doc[1], cs.scroll_y, c.row))
        ELSE IF LastRowPanics(es.doc_lines, cs.scroll_y)
             THEN Panic(ctx, "overflow")
        \* Bounds check
        ELSE IF c.row = LastRow(es.doc_lines, cs.scroll_y) THEN ctx
        ELSE
            LET line  == curr_line(doc[1], cs.scroll_y, c.row)
                saved == [ctx EXCEPT !.render_state.last_cursor = Some(c)]
            IN  IF c.column = max_col(line)
                THEN adjust_column_start(move_down(saved, es), doc[1])
                ELSE IF CONTROL \in modifiers /\ c.column >= Len(line)
                     THEN Panic(ctx, "byte index")
                ELSE
                    LET new_col ==
                            IF CONTROL \in modifiers
                            THEN IF line[c.column + 1] = " "
                                 THEN skip_spaces_right(line, c.column)
                                 ELSE skip_gap_right(line,
                                        skip_word_right(line, c.column))
                            ELSE c.column + 1
                        column == Min(max_col(line), new_col)
                    IN  [saved EXCEPT
                            !.cursor.column = column,
                            !.cursor_state.last_column =
                                IF column = max_col(line) THEN TRUE
                                ELSE cs.last_column]

\* Event::Key(Left)
key_left(ctx, es, modifiers) ==
    LET c    == ctx.cursor
        ctx0 == [ctx EXCEPT !.cursor_state.last_column = FALSE]
        cs   == ctx0.cursor_state
    IN  IF doc = None THEN ctx0
        ELSE IF c.column = 0
        THEN LET moved == move_up(ctx0)
             IN  IF moved.cursor.row # 0
                 THEN adjust_column_end(moved, doc[1])
                 ELSE moved
        ELSE IF LookupPanic(doc[1], cs.scroll_y, c.row) # "none"
             THEN Panic(ctx, LookupPanic(doc[1], cs.scroll_y, c.row))
        ELSE IF LastRowPanics(es.doc_lines, cs.scroll_y)
             THEN Panic(ctx, "overflow")
        \* Bounds check
        ELSE IF c.row = LastRow(es.doc_lines, cs.scroll_y) THEN ctx0
        ELSE
            LET line  == curr_line(doc[1], cs.scroll_y, c.row)
                saved == [ctx0 EXCEPT !.render_state.last_cursor = Some(c)]
            IN  IF CONTROL \in modifiers
                THEN IF c.column >= Len(line) THEN Panic(ctx, "byte index")
                     ELSE [saved EXCEPT !.cursor.column =
                             IF line[c.column + 1] = " "
                             THEN skip_spaces_left(line, c.column)
                             ELSE skip_spaces_left(line,
                                    skip_word_left(line, c.column))]
                ELSE [saved EXCEPT !.cursor.column =
                                       CheckedSubOr0(c.column, 1)]

\* Event::Mouse(ScrollUp)
mouse_scroll_up(ctx, es, modifiers) ==
    LET moved == IF SHIFT \in modifiers THEN page_up(ctx, es)
                 ELSE scroll_up(ctx, es)
    IN  IF doc # None
        THEN adjust_column_vertical(moved, doc[1], modifiers)
        ELSE IF moved.panic # "none" THEN moved
        ELSE [moved EXCEPT !.cursor.row = 0]

\* Event::Mouse(ScrollDown)
mouse_scroll_down(ctx, es, modifiers) ==
    LET moved == IF SHIFT \in modifiers THEN page_down(ctx, es)
                 ELSE scroll_down(ctx, es)
    IN  IF doc # None
        THEN adjust_column_vertical(moved, doc[1], modifiers)
        ELSE IF moved.panic # "none" THEN moved
        ELSE [moved EXCEPT !.cursor.row = 0]

\* Event::Mouse(Up(_)) at the terminal cell (row, column)
mouse_up(ctx, es, row, column) ==
    IF es.rows = 0 THEN Panic(ctx, "divide by zero")
    ELSE
        LET r == Min(row, CheckedSubOr0(es.doc_lines % es.rows, 1))
            k == Min(CheckedSubOr0(column, 4), es.columns)
            placed == [ctx EXCEPT
                          !.render_state.last_cursor = Some(ctx.cursor),
                          !.cursor = [column |-> k, row |-> r]]
        IN  IF doc # None
            THEN adjust_column_random(placed, doc[1])
            ELSE [placed EXCEPT !.cursor = [column |-> 0, row |-> 0]]

----------------------------------------------------------------------------
(* The viewport query, process_keypress and refresh_screen *)

\* (rows - 2), (columns - 4) on the u16 pair of terminal::size() panics
viewport_panics(ts) == overflow_checks /\ (ts.rows < 2 \/ ts.columns < 4)

\* A viewport that keeps one row for the status bar: rows - 1, columns - 4
viewport_less_one(ts) == [rows    |-> (ts.rows - 1 + U16) % U16,
                          columns |-> (ts.columns - 4 + U16) % U16]

\* let rows = (rows - 2) as usize; let columns = (columns - 4) as usize
viewport(ts) == [rows    |-> (ts.rows - 2 + U16) % U16,
                 columns |-> (ts.columns - 4 + U16) % U16]

\* EditorState after the viewport query
sized(es, ts) == [es EXCEPT !.rows = viewport(ts).rows,
                            !.columns = viewport(ts).columns]

NoEvent == [kind |-> "none", modifiers |-> {}, row |-> 0, column |-> 0]
KeyEvent(kind, modifiers) ==
    [kind |-> kind, modifiers |-> modifiers, row |-> 0, column |-> 0]
MouseEvent(kind, modifiers, row, column) ==
    [kind |-> kind, modifiers |-> modifiers, row |-> row, column |-> column]

\* A default arm that asks for the caret to be moved
dispatch_marks_unknown(ctx, es, ev) ==
    CASE ev.kind = "Up"         -> key_up(ctx, es, ev.modifiers)
      [] ev.kind = "Down"       -> key_down(ctx, es, ev.modifiers)
      [] ev.kind = "Right"      -> key_right(ctx, es, ev.modifiers)
      [] ev.kind = "Left"       -> key_left(ctx, es, ev.modifiers)
      [] ev.kind = "ScrollUp"   -> mouse_scroll_up(ctx, es, ev.modifiers)
      [] ev.kind = "ScrollDown" -> mouse_scroll_down(ctx, es, ev.modifiers)
      [] ev.kind = "MouseUp"    -> mouse_up(ctx, es, ev.row, ev.column)
      [] OTHER                  ->
            [ctx EXCEPT !.render_state.last_cursor = Some(ctx.cursor)]

\* The match of process_keypress on the event read
dispatch(ctx, es, ev) ==
    CASE ev.kind = "Up"         -> key_up(ctx, es, ev.modifiers)
      [] ev.kind = "Down"       -> key_down(ctx, es, ev.modifiers)
      [] ev.kind = "Right"      -> key_right(ctx, es, ev.modifiers)
      [] ev.kind = "Left"       -> key_left(ctx, es, ev.modifiers)
      [] ev.kind = "ScrollUp"   -> mouse_scroll_up(ctx, es, ev.modifiers)
      [] ev.kind = "ScrollDown" -> mouse_scroll_down(ctx, es, ev.modifiers)
      [] ev.kind = "MouseUp"    -> mouse_up(ctx, es, ev.row, ev.column)
      [] OTHER                  -> ctx

\* One call of process_keypress with the event ev (kind "other": no event
\* within the timeout, or an event no arm matches)
process_keypress(ev) ==
    IF viewport_panics(term_size)
    THEN /\ panic' = "overflow"
         /\ pc' = "aborted"
         /\ event' = ev
         /\ prev' = [cursor |-> cursor, cursor_state |-> cursor_state]
         /\ UNCHANGED <<doc, cursor, editor_state, cursor_state, render_state,
                        term_size, overflow_checks, painted, file, raw_mode>>
    ELSE
        LET es  == sized(editor_state, term_size)
            out == dispatch(Ctx(cursor, cursor_state, render_state), es, ev)
        IN  /\ event' = ev
            /\ prev' = [cursor |-> cursor, cursor_state |-> cursor_state]
            /\ IF out.panic # "none"
               THEN /\ panic' = out.panic
                    /\ pc' = "aborted"
                    /\ editor_state' = es
                    /\ UNCHANGED <<cursor, cursor_state, render_state>>
               ELSE /\ out.cursor_state.scroll_y
                          <= (IF es.doc_lines > MaxScrollY THEN es.doc_lines
                              ELSE MaxScrollY)
                    /\ cursor' = out.cursor
                    /\ cursor_state' = out.cursor_state
                    /\ render_state' = out.render_state
                    /\ editor_state' =
                          IF ev.kind = "q" THEN [es EXCEPT !.running = FALSE]
                          ELSE es
                    /\ pc' = "reset"
                    /\ UNCHANGED panic
            /\ UNCHANGED <<doc, term_size, overflow_checks, painted, file,
                           raw_mode>>

NothingPainted == [status |-> FALSE, full |-> FALSE, row |-> FALSE,
                   caret |-> FALSE]

\* The panic, if any, of refresh_screen
refresh_panic(document, es, cs, rs) ==
    IF rs.modif_status /\ document = None
       /\ overflow_checks /\ SubOverflows(es.columns, 7)
    THEN "overflow"
    ELSE IF rs.modif_all /\ document = None
            /\ overflow_checks
            /\ (SubOverflows(es.rows, 1)
                \/ (es.rows \div 3 < es.rows - 1
                    /\ SubOverflows(es.columns \div 2, 14)))
    THEN "overflow"
    ELSE IF ~rs.modif_all /\ rs.modif_row # None /\ document = None
    THEN "unwrap"
    ELSE IF ~rs.modif_all /\ rs.modif_row # None
            /\ LookupPanic(document[1], rs.modif_row[1], cs.scroll_y) # "none"
    THEN LookupPanic(document[1], rs.modif_row[1], cs.scroll_y)
    ELSE "none"

\* A renderer that repaints by priority: the status bar alone, else the
\* full viewport, else the single row
refresh_screen_by_priority(rs) ==
    [status |-> rs.modif_status,
     full   |-> ~rs.modif_status /\ rs.modif_all,
     row    |-> ~rs.modif_status /\ ~rs.modif_all /\ rs.modif_row # None,
     caret  |-> rs.last_cursor # None /\ rs.modif_all = FALSE]

\* What refresh_screen repaints
refresh_screen(rs) ==
    [status |-> rs.modif_status,
     full   |-> rs.modif_all,
     row    |-> ~rs.modif_all /\ rs.modif_row # None,
     caret  |-> rs.last_cursor # None /\ rs.modif_all = FALSE]

----------------------------------------------------------------------------
(* main *)

InitialCursor == [column |-> 0, row |-> 0]
InitialCursorState == [scroll_y |-> 0, last_column |-> FALSE,
                       last_padding |-> 0]
InitialRenderState == [modif_row |-> None, modif_all |-> FALSE,
                       last_cursor |-> None, modif_status |-> FALSE]

\* No process argument, a file that cannot be read, a file of these bytes
NoFile == [given |-> FALSE, readable |-> FALSE, bytes |-> <<>>]
Unreadable == [given |-> TRUE, readable |-> FALSE, bytes |-> <<>>]
File(bytes) == [given |-> TRUE, readable |-> TRUE, bytes |-> bytes]

\* The bytes of a file whose lines are these, each ended by a newline
RECURSIVE Terminated(_)
Terminated(lines) ==
    IF lines = <<>> THEN <<>>
    ELSE IF Len(lines) = 1 THEN lines[1] \o <<"\n">>
    ELSE LET half == Len(lines) \div 2
         IN  Terminated(SubSeq(lines, 1, half))
                \o Terminated(SubSeq(lines, half + 1, Len(lines)))
FileOf(document) ==
    IF document = None THEN NoFile ELSE File(Terminated(document[1]))

Init ==
    /\ doc \in {None} \cup {Some(d) : d \in Documents \cup ExampleDocuments}
    /\ term_size \in TermSizes
    /\ overflow_checks \in BOOLEAN
    /\ cursor = InitialCursor
    /\ cursor_state = InitialCursorState
    /\ render_state = InitialRenderState
    /\ editor_state = [running   |-> TRUE,
                       rows      |-> viewport(term_size).rows,
                       columns   |-> viewport(term_size).columns,
                       doc_lines |-> IF doc = None THEN 0 ELSE Len(doc[1])]
    /\ panic = IF viewport_panics(term_size) THEN "overflow" ELSE "none"
    /\ pc = IF viewport_panics(term_size) THEN "aborted" ELSE "refresh"
    /\ painted = NothingPainted
    /\ event = NoEvent
    /\ prev = [cursor |-> InitialCursor, cursor_state |-> InitialCursorState]
    /\ file = FileOf(doc)
    /\ raw_mode = TRUE

\* The loop without its break: the running flag is never looked at
Refresh_no_break ==
    /\ pc = "refresh"
    /\ IF refresh_panic(doc, editor_state, cursor_state, render_state) # "none"
       THEN /\ panic' = refresh_panic(doc, editor_state, cursor_state,
                                      render_state)
            /\ pc' = "aborted"
            /\ UNCHANGED <<render_state, painted, raw_mode>>
       ELSE /\ painted' = refresh_screen(render_state)
            /\ render_state' = [render_state EXCEPT !.last_cursor = None]
            /\ pc' = "process"
            /\ UNCHANGED <<panic, raw_mode>>
    /\ UNCHANGED <<doc, cursor, editor_state, cursor_state, term_size,
                   overflow_checks, event, prev, file>>

\* loop { refresh_screen(..)?; render_state.last_cursor = None;
\*        if !editor_state.running { break; }
Refresh ==
    /\ pc = "refresh"
    /\ IF refresh_panic(doc, editor_state, cursor_state, render_state) # "none"
       THEN /\ panic' = refresh_panic(doc, editor_state, cursor_state,
                                      render_state)
            /\ pc' = "aborted"
            /\ UNCHANGED <<render_state, painted, raw_mode>>
       ELSE /\ painted' = refresh_screen(render_state)
            /\ render_state' = [render_state EXCEPT !.last_cursor = None]
            /\ pc' = IF editor_state.running THEN "process" ELSE "done"
            /\ raw_mode' = (raw_mode /\ editor_state.running)
            /\ UNCHANGED panic
    /\ UNCHANGED <<doc, cursor, editor_state, cursor_state, term_size,
                   overflow_checks, event, prev, file>>

KeyQuit == pc = "process" /\ process_keypress(KeyEvent("q", {}))

KeyUp == pc = "process" /\ \E m \in KeyModifiers :
             process_keypress(KeyEvent("Up", m))

KeyDown == pc = "process" /\ \E m \in KeyModifiers :
               process_keypress(KeyEvent("Down", m))

KeyRight == pc = "process" /\ \E m \in KeyModifiers :
                process_keypress(KeyEvent("Right", m))

KeyLeft == pc = "process" /\ \E m \in KeyModifiers :
               process_keypress(KeyEvent("Left", m))

MouseScrollUp == pc = "process" /\ \E m \in KeyModifiers :
                     process_keypress(MouseEvent("ScrollUp", m, 0, 0))

MouseScrollDown == pc = "process" /\ \E m \in KeyModifiers :
                       process_keypress(MouseEvent("ScrollDown", m, 0, 0))

MouseRelease == pc = "process" /\ \E r \in 0..MaxClickRow, k \in ClickColumns :
                    process_keypress(MouseEvent("MouseUp", {}, r, k))

OtherEvent == pc = "process" /\ process_keypress(KeyEvent("other", {}))

\* render_state.modif_column = None; render_state.modif_all = false; }
Reset ==
    /\ pc = "reset"
    /\ render_state' = [render_state EXCEPT !.modif_row = None,
                                            !.modif_all = FALSE]
    /\ pc' = "refresh"
    /\ event' = NoEvent
    /\ prev' = [cursor |-> InitialCursor, cursor_state |-> InitialCursorState]
    /\ UNCHANGED <<doc, cursor, editor_state, cursor_state, term_size,
                   overflow_checks, panic, painted, file, raw_mode>>

Next ==
    \/ Refresh
    \/ KeyQuit
    \/ KeyUp
    \/ KeyDown
    \/ KeyRight
    \/ KeyLeft
    \/ MouseScrollUp
    \/ MouseScrollDown
    \/ MouseRelease
    \/ OtherEvent
    \/ Reset

Spec == Init /\ [][Next]_vars

\* A document of more lines than the limit that adjust_column_vertical
\* asserts on scroll_y
LongDocument == [i \in 1..LongDocLines |-> <<"a">>]

\* main started on the long document, in a terminal 5 rows high
LongInit ==
    /\ doc = Some(LongDocument)
    /\ term_size = [columns |-> 12, rows |-> 5]
    /\ overflow_checks \in BOOLEAN
    /\ cursor = InitialCursor
    /\ cursor_state = InitialCursorState
    /\ render_state = InitialRenderState
    /\ editor_state = [running   |-> TRUE,
                       rows      |-> viewport(term_size).rows,
                       columns   |-> viewport(term_size).columns,
                       doc_lines |-> Len(doc[1])]
    /\ panic = "none"
    /\ pc = "refresh"
    /\ painted = NothingPainted
    /\ event = NoEvent
    /\ prev = [cursor |-> InitialCursor, cursor_state |-> InitialCursorState]
    /\ file = FileOf(doc)
    /\ raw_mode = TRUE

LongSpec == LongInit /\ [][Next]_vars

\* The bytes a file is made of: content, line feed, carriage return
FileBytes == {"a", "\n", "\r"}

Files == UNION {[1..n -> FileBytes] : n \in 0..MaxFileLen}

\* The while loop of Document::new: the Line {start, len} of every line that
\* a terminator ends; i, start and len count from 0
RECURSIVE scan_lines(_, _, _, _, _)
scan_lines(bytes, i, start, len, lines) ==
    IF ~(i < Len(bytes)) THEN lines
    ELSE IF bytes[i + 1] = "\r" /\ i < Len(bytes) - 1 /\ bytes[i + 2] = "\n"
    THEN scan_lines(bytes, i + 2, i + 2, 0,
                    Append(lines, [start |-> start, len |-> len]))
    ELSE IF bytes[i + 1] = "\n"
    THEN scan_lines(bytes, i + 1, i + 1, 0,
                    Append(lines, [start |-> start, len |-> len]))
    ELSE scan_lines(bytes, i + 1, start, len + 1, lines)

\* Document::new: inner_lines, one string per Line, bytes[start..start+len]
Document_new(bytes) ==
    LET lines == scan_lines(bytes, 0, 0, 0, <<>>)
    IN  [k \in 1..Len(lines) |->
            SubSeq(bytes, lines[k].start + 1, lines[k].start + lines[k].len)]

\* main about to start, on no argument, an unreadable file or a file of
\* Files, in a terminal 5 rows high
LoadInit ==
    /\ file \in {NoFile, Unreadable} \cup {File(b) : b \in Files}
    /\ doc = None
    /\ raw_mode = FALSE
    /\ term_size = [columns |-> 12, rows |-> 5]
    /\ overflow_checks \in BOOLEAN
    /\ cursor = InitialCursor
    /\ cursor_state = InitialCursorState
    /\ render_state = InitialRenderState
    /\ editor_state = [running   |-> TRUE,
                       rows      |-> viewport(term_size).rows,
                       columns   |-> viewport(term_size).columns,
                       doc_lines |-> 0]
    /\ panic = "none"
    /\ pc = "load"
    /\ painted = NothingPainted
    /\ event = NoEvent
    /\ prev = [cursor |-> InitialCursor, cursor_state |-> InitialCursorState]

\* A startup that takes a file it cannot read for no file at all
Load_ignores_error ==
    /\ pc = "load"
    /\ doc' = IF file.given /\ file.readable
              THEN Some(Document_new(file.bytes)) ELSE None
    /\ editor_state' =
          [editor_state EXCEPT !.doc_lines =
              IF file.given /\ file.readable
              THEN Len(Document_new(file.bytes)) ELSE 0]
    /\ raw_mode' = TRUE
    /\ panic' = IF viewport_panics(term_size) THEN "overflow" ELSE "none"
    /\ pc' = IF viewport_panics(term_size) THEN "aborted" ELSE "refresh"
    /\ UNCHANGED <<cursor, cursor_state, render_state, term_size,
                   overflow_checks, painted, event, prev, file>>

\* main up to its loop: Document::new(path)?, enable_raw_mode, the initial
\* states and the first viewport query
Load ==
    /\ pc = "load"
    /\ IF file.given /\ ~file.readable
       THEN /\ pc' = "failed"
            /\ UNCHANGED <<doc, editor_state, raw_mode, panic>>
       ELSE /\ doc' = IF file.given THEN Some(Document_new(file.bytes))
                      ELSE None
            /\ editor_state' =
                  [editor_state EXCEPT !.doc_lines =
                      IF file.given THEN Len(Document_new(file.bytes)) ELSE 0]
            /\ raw_mode' = TRUE
            /\ panic' = IF viewport_panics(term_size) THEN "overflow"
                        ELSE "none"
            /\ pc' = IF viewport_panics(term_size) THEN "aborted"
                     ELSE "refresh"
    /\ UNCHANGED <<cursor, cursor_state, render_state, term_size,
                   overflow_checks, painted, event, prev, file>>

StartNext == Load \/ Next

\* main from its first line
LoadSpec == LoadInit /\ [][StartNext]_vars

\* The RenderStates refresh_screen may be handed
RenderStates ==
    [modif_row    : {None} \cup {Some(r) : r \in 0..2},
     modif_all    : BOOLEAN,
     last_cursor  : {None, Some([column |-> 0, row |-> 0]),
                     Some([column |-> 1, row |-> 1])},
     modif_status : BOOLEAN]

\* refresh_screen about to be called on any RenderState, with and without
\* a document, in a terminal 5 rows high
RenderInit ==
    /\ doc \in {None} \cup {Some(d) : d \in ExampleDocuments}
    /\ term_size = [columns |-> 12, rows |-> 5]
    /\ overflow_checks \in BOOLEAN
    /\ cursor = InitialCursor
    /\ cursor_state = InitialCursorState
    /\ render_state \in RenderStates
    /\ editor_state = [running   |-> TRUE,
                       rows      |-> viewport(term_size).rows,
                       columns   |-> viewport(term_size).columns,
                       doc_lines |-> IF doc = None THEN 0 ELSE Len(doc[1])]
    /\ panic = "none"
    /\ pc = "refresh"
    /\ painted = NothingPainted
    /\ event = NoEvent
    /\ prev = [cursor |-> InitialCursor, cursor_state |-> InitialCursorState]
    /\ file = FileOf(doc)
    /\ raw_mode = TRUE

\* One call of refresh_screen
RenderSpec == RenderInit /\ [][Refresh]_vars

\* The loop never stops between two of its steps: poll returns within its
\* timeout of 50 ms, so every iteration of main's loop comes to its end
FairSpec == Spec /\ WF_vars(Next)

----------------------------------------------------------------------------
(* Vocabulary of the properties *)

HasDocument == doc # None

\* The document-absolute line of the cursor
AbsoluteLine == WAdd(cursor_state.scroll_y, cursor.row)

\* The cursor is on a line of the document
OnLine == HasDocument /\ AbsoluteLine < Len(doc[1])

\* The event just handled is the key `kind` with exactly the modifiers m
Handled(kind, m) == event.kind = kind /\ event.modifiers = m

\* The document-absolute line of the cursor when the event arrived
PrevAbsoluteLine == WAdd(prev.cursor_state.scroll_y, prev.cursor.row)

----------------------------------------------------------------------------
(* Properties *)

\* C1: with a loaded document of at least one line, in every reachable state
\* scroll_y + cursor.row is the index of an existing line, and no line lookup
\* doc.inner_lines[scroll_y + row] goes past the end of the document.
C1_LineExists ==
    (HasDocument /\ editor_state.doc_lines >= 1)
        => (AbsoluteLine < editor_state.doc_lines /\ panic # "index")

\* C2: for every viewport with rows >= 1, after any sequence of navigation
\* events the cursor row is inside the viewport: cursor.row < rows.
C2_RowInViewport ==
    editor_state.rows >= 1 => cursor.row < editor_state.rows

\* C3: after every navigation event, in a viewport of at least one row,
\* cursor.column <= max(0, len(line) - 1), line being the document line under
\* the cursor, whitespace-only lines included.
C3_ColumnInLine ==
    (OnLine /\ panic = "none" /\ term_size.rows >= 3)
        => cursor.column
              <= max_col(curr_line(doc[1], cursor_state.scroll_y, cursor.row))

\* C4: for a document with doc_lines >= rows, scroll_y + rows <= doc_lines
\* after any of the scroll-changing operations in any order.
C4_ViewportInDocument ==
    (HasDocument /\ editor_state.doc_lines >= editor_state.rows)
        => cursor_state.scroll_y + editor_state.rows <= editor_state.doc_lines

\* C5: in every reachable state of a viewport of at least one row,
\* scroll_y <= doc_lines, and no operation makes scroll_y underflow: a wheel
\* scroll-up with scroll_y = 0 and cursor.row > 0 neither panics nor wraps.
C5_ScrollInRange ==
    term_size.rows >= 3 =>
    /\ cursor_state.scroll_y <= editor_state.doc_lines
    /\ (event.kind = "ScrollUp" /\ SHIFT \notin event.modifiers
        /\ prev.cursor_state.scroll_y = 0 /\ prev.cursor.row > 0)
           => panic = "none"

\* C6: with a loaded document of zero lines, in a viewport of at least one
\* row, every input event is processed without abnormal termination and
\* leaves the cursor at (0, 0) and scroll_y at 0.
C6_EmptyDocument ==
    (HasDocument /\ Len(doc[1]) = 0 /\ term_size.rows >= 3)
        => /\ panic = "none"
           /\ cursor = InitialCursor
           /\ cursor_state.scroll_y = 0

\* C7: when the usable viewport has zero rows or the terminal is shorter than
\* the row reservation, every event handled is a no-op: nothing panics and
\* Cursor and CursorState keep their values.
C7_DegenerateViewport ==
    (term_size.rows <= 2 /\ event.kind # "none")
        => /\ panic = "none"
           /\ cursor = prev.cursor
           /\ cursor_state = prev.cursor_state

\* C8: a plain Up received with cursor.row = 0 and scroll_y = 0, on a document
\* of at least one line in a viewport of at least one row, is a no-op: row,
\* column, scroll_y, last_column and last_padding are unchanged.
C8_UpAtTopIsNoOp ==
    (Handled("Up", {}) /\ HasDocument /\ editor_state.doc_lines >= 1
     /\ term_size.rows >= 3
     /\ prev.cursor.row = 0 /\ prev.cursor_state.scroll_y = 0)
        => /\ panic = "none"
           /\ cursor = prev.cursor
           /\ cursor_state = prev.cursor_state

\* C9: a plain Down received with the cursor on the last document line, in a
\* viewport of at least one row, is a no-op: cursor.row, cursor.column and
\* scroll_y are unchanged.
C9_DownAtLastLineIsNoOp ==
    (Handled("Down", {}) /\ HasDocument /\ term_size.rows >= 3
     /\ PrevAbsoluteLine = editor_state.doc_lines - 1)
        => /\ panic = "none"
           /\ cursor = prev.cursor
           /\ cursor_state.scroll_y = prev.cursor_state.scroll_y

\* The context of the current state
Here == Ctx(cursor, cursor_state, render_state)

\* page_down has just run on the scroll offset prev.cursor_state.scroll_y
PagedDown == pc = "reset" /\ event.kind \in {"Down", "ScrollDown"}
             /\ SHIFT \in event.modifiers

\* page_down shifted the viewport by a full page
ShiftedFullPage ==
    cursor_state.scroll_y = prev.cursor_state.scroll_y + editor_state.rows

Abs(n) == IF n < 0 THEN 0 - n ELSE n

\* C10: page_down from scroll_y = s followed by page_up gives a scroll_y s'
\* with |s' - s| <= rows, and s' = s when page_down shifted a full page.
C10_PageDownThenUp ==
    PagedDown =>
        LET s  == prev.cursor_state.scroll_y
            s2 == page_up(Here, editor_state).cursor_state.scroll_y
        IN  /\ page_up(Here, editor_state).panic = "none"
            /\ Abs(s2 - s) <= editor_state.rows
            /\ ShiftedFullPage => s2 = s

\* C10 happens: a page_down that shifted a full page from a non-zero offset
C10_Witness ==
    /\ PagedDown
    /\ ShiftedFullPage
    /\ editor_state.rows >= 2
    /\ prev.cursor_state.scroll_y >= 1
    /\ page_up(Here, editor_state).cursor_state.scroll_y
          = prev.cursor_state.scroll_y

----------------------------------------------------------------------------
(* Vocabulary of the column properties *)

\* The number of leading whitespace characters of a line
LeadingWhitespace(line) ==
    Cardinality({i \in 1..Len(line) :
                    \A j \in 1..i : is_ascii_whitespace(line[j])})

\* The last valid index of a line: max(0, len(line) - 1)
LastIndex(line) == IF Len(line) = 0 THEN 0 ELSE Len(line) - 1

Clamp(x, lo, hi) == IF x < lo THEN lo ELSE IF x > hi THEN hi ELSE x

\* The document line under the cursor, now and when the event arrived
LineUnderCursor == doc[1][AbsoluteLine + 1]
PrevLine == doc[1][PrevAbsoluteLine + 1]

\* A vertical move on a document has just run to its end: one of the moves of
\* the viewport, then adjust_column_vertical
VerticalMove ==
    /\ pc = "reset"
    /\ HasDocument
    /\ event.kind \in {"Up", "Down", "ScrollUp", "ScrollDown"}

\* C11: adjust_column_vertical without Control and with last_column false
\* sets the column to clamp(old_column + p - last_padding, 0,
\* max(0, len(line) - 1)), p being the leading whitespace of the new line.
C11_VerticalShiftsByPadding ==
    (VerticalMove /\ CONTROL \notin event.modifiers
     /\ ~prev.cursor_state.last_column)
        => cursor.column
              = Clamp(prev.cursor.column + LeadingWhitespace(LineUnderCursor)
                         - prev.cursor_state.last_padding,
                      0, LastIndex(LineUnderCursor))

\* C11 happens: from column 6 with last_padding 4 onto "  bar", column 4
C11_Witness ==
    /\ VerticalMove /\ CONTROL \notin event.modifiers
    /\ term_size.rows >= 3
    /\ ~prev.cursor_state.last_column
    /\ prev.cursor.column = 6
    /\ prev.cursor_state.last_padding = 4
    /\ PrevLine = LineFoo
    /\ LineUnderCursor = LineBar
    /\ cursor.column = 4

\* C12: adjust_column_vertical with Control and with last_column false keeps
\* the column but for clamping, min(old_column, max(0, len(line) - 1)), and
\* still sets last_padding to the leading whitespace of the new line.
C12_ControlKeepsColumn ==
    (VerticalMove /\ CONTROL \in event.modifiers
     /\ ~prev.cursor_state.last_column)
        => /\ cursor.column
                = Min(prev.cursor.column, LastIndex(LineUnderCursor))
           /\ cursor_state.last_padding = LeadingWhitespace(LineUnderCursor)

\* C12 happens: Control held between lines of different indentation, the
\* column kept
C12_Witness ==
    /\ VerticalMove /\ CONTROL \in event.modifiers
    /\ term_size.rows >= 3
    /\ ~prev.cursor_state.last_column
    /\ PrevAbsoluteLine # AbsoluteLine
    /\ prev.cursor_state.last_padding # LeadingWhitespace(LineUnderCursor)
    /\ prev.cursor.column >= 1
    /\ cursor.column = prev.cursor.column

\* adjust_column_end has just placed the cursor: a Left received at column 0
\* that moved the cursor up to a row other than row 0
EndAdjusted ==
    /\ pc = "reset"
    /\ HasDocument
    /\ event.kind = "Left"
    /\ prev.cursor.column = 0
    /\ cursor.row # 0

\* What a plain Left received in the current state gives
AfterPlainLeft == key_left(Here, editor_state, {})

\* C13: when adjust_column_end has just placed the cursor on a line of at
\* least two characters, a plain Left coming next moves the cursor to column
\* len(line) - 2 of the same line.
C13_LeftAfterEnd ==
    (EndAdjusted /\ Len(LineUnderCursor) >= 2)
        => /\ AfterPlainLeft.panic = "none"
           /\ AfterPlainLeft.cursor.column = Len(LineUnderCursor) - 2
           /\ AfterPlainLeft.cursor.row = cursor.row
           /\ AfterPlainLeft.cursor_state.scroll_y = cursor_state.scroll_y

\* C13 happens: the cursor placed at the end of a line of two characters or
\* more, and the Left that follows moves it one column to the left
C13_Witness ==
    /\ EndAdjusted
    /\ term_size.rows >= 3
    /\ Len(LineUnderCursor) >= 2
    /\ cursor.column = Len(LineUnderCursor) - 1
    /\ AfterPlainLeft.cursor.column = cursor.column - 1

\* C14: after a mouse button release at any terminal cell, on a document of
\* at least one line in a viewport of at least one row, the new cursor row r
\* is a valid row: r < rows and scroll_y + r < doc_lines.
C14_ClickRowInDocument ==
    (event.kind = "MouseUp" /\ HasDocument /\ editor_state.doc_lines >= 1
     /\ term_size.rows >= 3)
        => /\ panic = "none"
           /\ cursor.row < editor_state.rows
           /\ cursor_state.scroll_y + cursor.row < editor_state.doc_lines

----------------------------------------------------------------------------
(* Vocabulary of the word moves; columns count from 0 *)

\* The character of a line at column k
CharAt(line, k) == line[k + 1]

Columns(line) == 0..(Len(line) - 1)

Least(S) == CHOOSE x \in S : \A y \in S : x <= y
Greatest(S) == CHOOSE x \in S : \A y \in S : y <= x

\* The first column after c holding a non-space, or the last column
NextNonSpace(line, c) ==
    LET S == {j \in Columns(line) : j > c /\ CharAt(line, j) # " "}
    IN  IF S = {} THEN LastIndex(line) ELSE Least(S)

\* The first character of the word after the one at c, or the last column
NextWord(line, c) ==
    LET S == {j \in Columns(line) : j > c /\ CharAt(line, j) = " "}
    IN  IF S = {} THEN LastIndex(line) ELSE NextNonSpace(line, Least(S))

\* Where Control+Right is to land from column c
WordForward(line, c) ==
    IF CharAt(line, c) = " " THEN NextNonSpace(line, c)
    ELSE NextWord(line, c)

\* A Right or Left has been handled that found the cursor on a line of the
\* document other than its last line
HorizontalInside(kind) ==
    /\ HasDocument
    /\ event.kind = kind
    /\ PrevAbsoluteLine < editor_state.doc_lines - 1

\* C15: Control+Right at a column before the last column of a line that is
\* not the last line lands on the first non-space after the run of spaces
\* when on a space, else on the first character of the next word, or on the
\* last column when there is none; on "  hello world" 0 gives 2, 2 gives 8.
C15_WordForward ==
    (HorizontalInside("Right") /\ CONTROL \in event.modifiers
     /\ prev.cursor.column < LastIndex(PrevLine))
        => /\ panic = "none"
           /\ cursor.column = WordForward(PrevLine, prev.cursor.column)
           /\ cursor.row = prev.cursor.row
           /\ cursor_state.scroll_y = prev.cursor_state.scroll_y
           /\ (PrevLine = LineHelloWorld /\ prev.cursor.column = 0)
                 => cursor.column = 2
           /\ (PrevLine = LineHelloWorld /\ prev.cursor.column = 2)
                 => cursor.column = 8

\* C15 happens: Control+Right from the h of "  hello world" lands on the w
C15_Witness ==
    /\ HorizontalInside("Right") /\ CONTROL \in event.modifiers
    /\ term_size.rows >= 3
    /\ PrevLine = LineHelloWorld
    /\ prev.cursor.column = 2
    /\ cursor.column = 8

\* The columns of a line at or before column c that hold a space / a non-space
SpacesUpTo(line, c) == {j \in 0..c : CharAt(line, j) = " "}
NonSpacesUpTo(line, c) == {j \in 0..c : CharAt(line, j) # " "}

\* The last character of the word before the one at c, or column 0
PreviousWordEnd(line, c) ==
    IF SpacesUpTo(line, c) = {} THEN 0
    ELSE LET w == Greatest(SpacesUpTo(line, c))
         IN  IF NonSpacesUpTo(line, w) = {} THEN 0
             ELSE Greatest(NonSpacesUpTo(line, w))

\* The first character of the word that holds the non-space at column k
WordStart(line, k) ==
    IF SpacesUpTo(line, k) = {} THEN 0
    ELSE Greatest(SpacesUpTo(line, k)) + 1

\* The first character of the word before the one at c, or column 0
PreviousWordStart(line, c) ==
    IF SpacesUpTo(line, c) = {} THEN 0
    ELSE LET w == Greatest(SpacesUpTo(line, c))
         IN  IF NonSpacesUpTo(line, w) = {} THEN 0
             ELSE WordStart(line, Greatest(NonSpacesUpTo(line, w)))

\* A Control+Left has been handled that found the cursor on a non-space at a
\* column > 0 of a line other than the last line
WordLeftOnWord ==
    /\ HorizontalInside("Left") /\ CONTROL \in event.modifiers
    /\ prev.cursor.column > 0
    /\ prev.cursor.column < Len(PrevLine)
    /\ CharAt(PrevLine, prev.cursor.column) # " "

\* C16: Control+Left on a non-space at a column > 0 of a line that is not the
\* last line lands on the first character of the previous word, or on column
\* 0 if there is no previous word.
C16_LandsOnWordStart ==
    (WordLeftOnWord /\ term_size.rows >= 3)
        => /\ panic = "none"
           /\ cursor.column = PreviousWordStart(PrevLine, prev.cursor.column)

\* C16 (amended): Control+Left on a non-space at a column > 0 of a line that
\* is not the last line retreats through the current word and the spaces
\* before it and lands on the last character of the previous word, or on
\* column 0 if no space or no non-space precedes; row and scroll_y stay.
C16_LandsOnPreviousWordEnd ==
    WordLeftOnWord
        => /\ panic = "none"
           /\ cursor.column = PreviousWordEnd(PrevLine, prev.cursor.column)
           /\ cursor.row = prev.cursor.row
           /\ cursor_state.scroll_y = prev.cursor_state.scroll_y
           /\ (PrevLine = LineHelloWorld /\ prev.cursor.column \in 8..12)
                 => cursor.column = 6
           /\ (PrevLine = LineHelloWorld /\ prev.cursor.column \in 2..6)
                 => cursor.column = 0

\* C16 happens: Control+Left from the w of "  hello world" lands on the o
C16_Witness ==
    /\ WordLeftOnWord
    /\ term_size.rows >= 3
    /\ PrevLine = LineHelloWorld
    /\ prev.cursor.column = 8
    /\ cursor.column = 6

----------------------------------------------------------------------------
(* Sticky end of line *)

\* A Right has just moved the cursor: handled to its end on a document, the
\* cursor not where it was
RightMoved ==
    /\ pc = "reset"
    /\ HasDocument
    /\ event.kind = "Right"
    /\ cursor # prev.cursor

\* The cursor is on the last column of the line it is on
OnLastColumn == OnLine /\ cursor.column = LastIndex(LineUnderCursor)

\* A Right has just moved the cursor along its line, from a column other than
\* the last one onto the last one
RightToEndOfLine ==
    /\ RightMoved /\ OnLastColumn
    /\ AbsoluteLine = PrevAbsoluteLine
    /\ prev.cursor.column # LastIndex(PrevLine)

\* The outcomes of every vertical move that may come next
NextVerticalMoves ==
    {key_up(Here, editor_state, m) : m \in KeyModifiers}
        \cup {key_down(Here, editor_state, m) : m \in KeyModifiers}
        \cup {mouse_scroll_up(Here, editor_state, m) : m \in KeyModifiers}
        \cup {mouse_scroll_down(Here, editor_state, m) : m \in KeyModifiers}

\* The outcome of a vertical move has the cursor on the last valid index of
\* the line it is on
SnappedToEnd(out) ==
    out.cursor.column
        = LastIndex(doc[1][WAdd(out.cursor_state.scroll_y, out.cursor.row) + 1])

\* C17: once a Right lands the cursor on the last column of its line, every
\* vertical move that follows leaves the column on the last valid index of
\* the line the cursor is then on (here: the vertical move coming next).
C17_AnyRightToLastColumnSticks ==
    (RightMoved /\ OnLastColumn /\ term_size.rows >= 3)
        => \A out \in NextVerticalMoves :
              out.panic = "none" => SnappedToEnd(out)

\* The column a vertical move gives when it does not snap to the end of line
Unsnapped ==
    IF CONTROL \in event.modifiers
    THEN Min(prev.cursor.column, LastIndex(LineUnderCursor))
    ELSE Clamp(prev.cursor.column + LeadingWhitespace(LineUnderCursor)
                  - prev.cursor_state.last_padding,
               0, LastIndex(LineUnderCursor))

\* Entering, snapping and leaving the sticky mode, told by last_column
StickyEndOfLine ==
    /\ RightToEndOfLine => cursor_state.last_column
    /\ (VerticalMove /\ prev.cursor_state.last_column)
          => /\ cursor.column = LastIndex(LineUnderCursor)
             /\ cursor_state.last_column
    /\ (event.kind = "Left" /\ panic = "none") => ~cursor_state.last_column
    /\ (VerticalMove /\ ~prev.cursor_state.last_column)
          => /\ cursor.column = Unsnapped
             /\ ~cursor_state.last_column

\* No step but the handling of a Left leaves the sticky mode
StickyUntilLeft ==
    (cursor_state.last_column /\ event'.kind # "Left")
        => cursor_state'.last_column

\* What does hold of the sticky mode: a Right that moves the cursor along its
\* line, from another column onto the last column, sets last_column; while
\* it is set every vertical move leaves the column on the last valid index
\* of the line the cursor is then on; it stays set over every step but the
\* handling of a Left, which clears it; vertical moves then do not snap.
StickyModeHolds == []StickyEndOfLine /\ [][StickyUntilLeft]_vars

\* The sticky mode at work: a vertical move to another line put the cursor on
\* its last index, where the unsnapped column is another one
StickyModeSnapped ==
    /\ VerticalMove /\ prev.cursor_state.last_column
    /\ term_size.rows >= 3
    /\ AbsoluteLine # PrevAbsoluteLine
    /\ cursor.column = LastIndex(LineUnderCursor)
    /\ cursor.column # Unsnapped

----------------------------------------------------------------------------
(* Resting states *)

\* C18: with a document loaded, in every state between events, the initial
\* state included, last_padding is the number of leading whitespace
\* characters of the document line under the cursor.
C18_PaddingOfLineUnderCursor ==
    (OnLine /\ panic = "none" /\ term_size.rows >= 3)
        => cursor_state.last_padding = LeadingWhitespace(LineUnderCursor)

\* C19: when no document is loaded, after any sequence of input events the
\* cursor is at (row 0, column 0) and scroll_y is 0.
C19_NoDocumentStaysAtOrigin ==
    (doc = None /\ term_size.rows >= 3)
        => /\ panic = "none"
           /\ cursor = InitialCursor
           /\ cursor_state.scroll_y = 0

\* C20: when the document has fewer lines than the viewport has rows,
\* 0 < doc_lines < rows, scroll_y stays 0 after any sequence of events,
\* wheel scroll-down events included.
C20_ShortDocumentNeverScrolls ==
    (HasDocument /\ term_size.rows >= 3
     /\ 0 < editor_state.doc_lines
     /\ editor_state.doc_lines < editor_state.rows)
        => cursor_state.scroll_y = 0

----------------------------------------------------------------------------
(* The event loop *)

\* The quit key has been processed
Quitting == ~editor_state.running

\* The quit key changes the running flag and nothing of the cursor
QuitKeepsCursor ==
    (event.kind = "q" /\ panic = "none")
        => /\ Quitting
           /\ cursor = prev.cursor
           /\ cursor_state = prev.cursor_state

\* The steps left once the quit key has been processed: the reset of the
\* RenderState, then one paint that ends the loop; no event is processed
QuitSteps ==
    Quitting
        => /\ UNCHANGED <<cursor, cursor_state, editor_state>>
           /\ event' = NoEvent
           /\ \/ pc = "reset" /\ pc' = "refresh" /\ painted' = painted
              \/ /\ pc = "refresh" /\ pc' = "done"
                 /\ painted' = refresh_screen(render_state)

\* C21: after the quit key is processed running is false, Cursor and
\* CursorState are unchanged by that event, the loop performs one more paint
\* and then terminates, and no further input event is processed.
C21_QuitPaintsOnceAndStops ==
    /\ []QuitKeepsCursor
    /\ [][QuitSteps]_vars
    /\ (Quitting ~> (pc = "done"))

\* C21 happens: the loop has ended after a quit key that came with the
\* cursor moved off its initial place
C21_Witness ==
    /\ pc = "done" /\ Quitting
    /\ term_size.rows >= 3
    /\ cursor.row >= 1
    /\ cursor_state.scroll_y >= 1

\* A step keeps every dirty flag that is set
FlagsKept ==
    /\ render_state.modif_all => render_state'.modif_all
    /\ render_state.modif_row # None
          => render_state'.modif_row = render_state.modif_row
    /\ render_state.last_cursor # None
          => render_state'.last_cursor = render_state.last_cursor

\* No dirty flag is set when an event is about to be processed
FlagsClearBeforeEvent ==
    pc = "process"
        => /\ ~render_state.modif_all
           /\ render_state.modif_row = None
           /\ render_state.last_cursor = None

\* C22: every dirty flag set while an event is processed (modif_all,
\* modif_row, last_cursor) is still set when the next frame is painted: no
\* step but the paint clears a flag, and the flags are clear again before
\* the next event is processed.
C22_FlagsReachThePaint ==
    /\ []FlagsClearBeforeEvent
    /\ [][(pc # "refresh" /\ HasDocument /\ term_size.rows >= 3)
            => FlagsKept]_vars

----------------------------------------------------------------------------
(* Dirty flags *)

\* An event has just been handled to its end; render_state is as the
\* handler left it
EventHandled == pc = "reset" /\ event.kind # "none"

ScrollChanged == cursor_state.scroll_y # prev.cursor_state.scroll_y

\* C23: every navigation event that changes scroll_y sets modif_all, page_up
\* from 0 < scroll_y < rows (which snaps scroll_y to 0) included.
C23_ScrollSetsModifAll ==
    (EventHandled /\ HasDocument /\ ScrollChanged /\ term_size.rows >= 3)
        => render_state.modif_all

CursorChanged == cursor # prev.cursor

\* C24: every navigation event that changes the cursor (row or column)
\* without changing scroll_y leaves modif_all false and modif_row empty and
\* sets last_cursor to the cursor held before the event, vertical moves whose
\* only effect is a column change by adjust_column_vertical included.
C24_CaretMoveSetsLastCursor ==
    (EventHandled /\ HasDocument /\ CursorChanged /\ ~ScrollChanged
     /\ term_size.rows >= 3)
        => /\ ~render_state.modif_all
           /\ render_state.modif_row = None
           /\ render_state.last_cursor = Some(prev.cursor)

\* C25: in every frame at most one of modif_all and modif_row is set in the
\* RenderState handed to the renderer, after any sequence of navigation
\* events; it holds of the RenderState at every point of the loop.
C25_OneRepaintFlag ==
    ~(render_state.modif_all /\ render_state.modif_row # None)

\* C25 happens: a frame is about to be painted after navigation events that
\* scrolled the viewport and moved the cursor
C25_Witness ==
    /\ pc = "refresh"
    /\ HasDocument
    /\ term_size.rows >= 3
    /\ cursor_state.scroll_y >= 1
    /\ cursor.row >= 1
    /\ C25_OneRepaintFlag

----------------------------------------------------------------------------
(* Horizontal moves *)

\* A plain Right or Left has been received with the cursor on a line of the
\* document
PlainOnLine(kind) ==
    /\ HasDocument
    /\ Handled(kind, {})
    /\ PrevAbsoluteLine < Len(doc[1])
    /\ term_size.rows >= 3

SameLine ==
    /\ cursor.row = prev.cursor.row
    /\ cursor_state.scroll_y = prev.cursor_state.scroll_y

\* C26: a plain Right with the cursor before the last column increases the
\* column by exactly 1 and a plain Left with column > 0 decreases it by
\* exactly 1, row and scroll_y unchanged, on every line of the document, the
\* last line and a single-line document included.
C26_PlainLeftRightStepByOne ==
    /\ (PlainOnLine("Right") /\ prev.cursor.column < LastIndex(PrevLine))
          => /\ panic = "none"
             /\ cursor.column = prev.cursor.column + 1
             /\ SameLine
    /\ (PlainOnLine("Left") /\ prev.cursor.column > 0)
          => /\ panic = "none"
             /\ cursor.column = prev.cursor.column - 1
             /\ SameLine

\* C27: a Left with column 0 and row >= 1 moves the cursor to the previous
\* document line (row decreases by 1, scroll_y unchanged) and sets the
\* column to that line's last index; the adjustment is skipped only when the
\* cursor was at row 0 before the event.
C27_LeftAtColumnZeroGoesToEnd ==
    (HasDocument /\ event.kind = "Left" /\ term_size.rows >= 3
     /\ PrevAbsoluteLine < Len(doc[1])
     /\ prev.cursor.column = 0 /\ prev.cursor.row >= 1)
        => /\ panic = "none"
           /\ cursor.row = prev.cursor.row - 1
           /\ cursor_state.scroll_y = prev.cursor_state.scroll_y
           /\ cursor.column = LastIndex(LineUnderCursor)

----------------------------------------------------------------------------
(* Vertical moves *)

\* A page move of the given kinds has been received on a document, in a
\* viewport of at least one row
PageMove(kinds) ==
    /\ HasDocument
    /\ event.kind \in kinds /\ SHIFT \in event.modifiers
    /\ term_size.rows >= 3
    /\ editor_state.doc_lines >= 1

\* C29: a page_down that cannot shift the viewport by a full page leaves
\* scroll_y unchanged and the cursor on the last document line (scroll_y +
\* row = doc_lines - 1), as a page_up that cannot shift a full page ends on
\* the first line (scroll_y = 0, row = 0).
C29_PageSnapsToEdge ==
    /\ (PageMove({"Down", "ScrollDown"})
        /\ prev.cursor_state.scroll_y + editor_state.rows
              > editor_state.doc_lines)
          => /\ panic = "none"
             /\ cursor_state.scroll_y = prev.cursor_state.scroll_y
             /\ AbsoluteLine = editor_state.doc_lines - 1
    /\ (PageMove({"Up", "ScrollUp"})
        /\ prev.cursor_state.scroll_y < editor_state.rows)
          => /\ panic = "none"
             /\ cursor_state.scroll_y = 0
             /\ cursor.row = 0

\* A plain Up or Down has been received on a non-empty document
PlainVertical(kind) ==
    /\ HasDocument
    /\ Handled(kind, {})
    /\ term_size.rows >= 3
    /\ editor_state.doc_lines >= 1

\* Exactly one of scroll_y and cursor.row differs from before the event
OneOfScrollAndRowChanged ==
    (cursor_state.scroll_y # prev.cursor_state.scroll_y)
        # (cursor.row # prev.cursor.row)

----------------------------------------------------------------------------
(* Mouse wheel and mouse button *)

\* A wheel scroll without Shift has changed scroll_y on a document
WheelScrolled(kind) ==
    /\ HasDocument
    /\ event.kind = kind /\ SHIFT \notin event.modifiers
    /\ panic = "none"
    /\ ScrollChanged
    /\ term_size.rows >= 3

\* The row is the one before the event and lies in the viewport
RowSaturated ==
    /\ cursor.row = prev.cursor.row
    /\ cursor.row <= editor_state.rows - 1

\* C31: a wheel scroll that changes scroll_y keeps scroll_y + row fixed when
\* the row is not at the saturating edge (scroll_down with row > 0, scroll_up
\* with row < rows - 1); at the edge only scroll_y changes and the row stays
\* within [0, rows - 1].
C31_WheelKeepsAbsoluteLine ==
    /\ WheelScrolled("ScrollDown")
          => IF prev.cursor.row > 0 THEN AbsoluteLine = PrevAbsoluteLine
             ELSE RowSaturated
    /\ WheelScrolled("ScrollUp")
          => IF prev.cursor.row < editor_state.rows - 1
             THEN AbsoluteLine = PrevAbsoluteLine
             ELSE RowSaturated

\* The same in viewports of two rows or more
WheelKeepsAbsoluteLineInTallViewport ==
    term_size.rows >= 4 => C31_WheelKeepsAbsoluteLine

\* A mouse button release has placed the cursor on a line of the document
Clicked ==
    /\ HasDocument
    /\ event.kind = "MouseUp"
    /\ panic = "none"
    /\ term_size.rows >= 3

\* The column a click asks for: the terminal column less the gutter of 4,
\* at most the viewport's columns
PlacedColumn ==
    Min(IF event.column >= 4 THEN event.column - 4 ELSE 0,
        editor_state.columns)

C33_ClickPlacesOnClickedRow ==
    (HasDocument /\ event.kind = "MouseUp" /\ term_size.rows >= 3
     /\ event.row < editor_state.rows
     /\ prev.cursor_state.scroll_y + event.row < editor_state.doc_lines)
        => /\ panic = "none"
           /\ cursor.row = event.row

\* C34: whenever last_column is true in a state between events the column
\* is the last valid index of the line under the cursor; neither a Right at
\* end of line that moves to the start of the next line nor a click inside a
\* line leaves last_column set with the cursor elsewhere.
C34_LastColumnMeansAtEnd ==
    (OnLine /\ panic = "none" /\ term_size.rows >= 3
     /\ cursor_state.last_column)
        => cursor.column = LastIndex(LineUnderCursor)

----------------------------------------------------------------------------
(* Events that are not navigation *)

\* The frame that follows the state as it is: main's reset of the
\* RenderState, then the paint
FollowingFrame ==
    refresh_screen([render_state EXCEPT !.modif_row = None,
                                        !.modif_all = FALSE])

\* C35: an unrecognized event, or a poll timeout with no event, leaves row,
\* column, scroll_y, last_column, last_padding and running unchanged and
\* sets no dirty flag, so the following frame repaints nothing.
C35_UnknownEventChangesNothing ==
    event.kind = "other"
        => /\ panic = "none"
           /\ cursor = prev.cursor
           /\ cursor_state = prev.cursor_state
           /\ editor_state.running
           /\ ~render_state.modif_all
           /\ render_state.modif_row = None
           /\ render_state.last_cursor = None
           /\ ~render_state.modif_status
           /\ FollowingFrame = NothingPainted

\* C35 happens: an unrecognized event arrived with the cursor moved off its
\* initial place and the sticky mode on
C35_Witness ==
    /\ event.kind = "other"
    /\ HasDocument
    /\ term_size.rows >= 3
    /\ cursor.row >= 1
    /\ cursor.column >= 1
    /\ cursor_state.scroll_y >= 1
    /\ cursor_state.last_column

----------------------------------------------------------------------------
(* The assertion of adjust_column_vertical *)

\* C36: the assertion at the entry of adjust_column_vertical, scroll_y < 134,
\* holds on every call reachable by any sequence of events, for every
\* document size; stated of the build with overflow checks, where scroll_y
\* never wraps, so that a failure is one of a scroll_y reached by scrolling.
C36_AssertionHolds == overflow_checks => panic # "assert"

----------------------------------------------------------------------------
(* The renderer *)

\* The number of body repaints of a frame among status bar, full viewport
\* and single row
Repaints(p) ==
    (IF p.status THEN 1 ELSE 0) + (IF p.full THEN 1 ELSE 0)
        + (IF p.row THEN 1 ELSE 0)

\* The step is a paint that came to its end
Paints == pc = "refresh" /\ pc' # "aborted"

CaretRule ==
    painted'.caret
        = (render_state.last_cursor # None /\ ~render_state.modif_all)

----------------------------------------------------------------------------
(* The viewport query *)

\* process_keypress has run its viewport query and come to its end
ViewportQueried == pc = "reset" /\ event.kind # "none"

\* C38: after the viewport query of each loop iteration EditorState.rows is
\* the terminal height minus 1 (the status-bar row) and EditorState.columns
\* the terminal width minus 4 (the gutter).
C38_RowsAreHeightLessOne ==
    (ViewportQueried /\ term_size.rows >= 3)
        => /\ editor_state.rows = term_size.rows - 1
           /\ editor_state.columns = term_size.columns - 4

\* C38 (amended): after the viewport query of each loop iteration
\* EditorState.rows is the terminal height minus 2 and EditorState.columns
\* the terminal width minus 4, both computed in 16 bits: below 2 rows the
\* subtraction wraps modulo 2^16 in a build without overflow checks.
C38_RowsAreHeightLessTwo ==
    ViewportQueried
        => /\ editor_state.rows
                 = (IF term_size.rows >= 2 THEN term_size.rows - 2
                    ELSE term_size.rows - 2 + U16)
           /\ editor_state.columns = term_size.columns - 4
           /\ term_size.rows < 2 => ~overflow_checks

\* C38 happens: the viewport query of a later iteration, in a terminal of
\* 5 rows and 12 columns, gives 3 rows and 8 columns
C38_Witness ==
    /\ ViewportQueried
    /\ term_size = [columns |-> 12, rows |-> 5]
    /\ editor_state.rows = 3
    /\ editor_state.columns = 8
    /\ cursor_state.scroll_y >= 1

----------------------------------------------------------------------------
(* Startup *)

\* Document::new has read the file
Loaded == file.given /\ file.readable /\ pc # "load"

\* The number of bytes of a file that are the byte ch
Count(bytes, ch) == Cardinality({i \in 1..Len(bytes) : bytes[i] = ch})

\* The number of carriage returns that are part of a \r\n terminator
CrLfs(bytes) ==
    Cardinality({i \in 1..(Len(bytes) - 1) :
                    bytes[i] = "\r" /\ bytes[i + 1] = "\n"})

\* The file ends with content that no terminator follows
TrailingContent(bytes) == bytes # <<>> /\ bytes[Len(bytes)] # "\n"

RECURSIVE TotalLength(_)
TotalLength(lines) ==
    IF lines = <<>> THEN 0 ELSE Len(Head(lines)) + TotalLength(Tail(lines))

\* C39: the load yields the file's physical lines: a file of k terminators
\* yields k lines, k + 1 when non-empty content follows the last terminator
\* (one line for a non-empty file without terminator), and every byte that
\* is not part of a terminator is in exactly one line.
C39_LoadYieldsPhysicalLines ==
    Loaded
        => /\ HasDocument
           /\ Len(doc[1]) = Count(file.bytes, "\n")
                               + (IF TrailingContent(file.bytes) THEN 1 ELSE 0)
           /\ TotalLength(doc[1])
                 = Len(file.bytes) - Count(file.bytes, "\n")
                      - CrLfs(file.bytes)

\* What does hold of the load: a file of k terminators yields k lines
LoadYieldsTerminatedLines ==
    Loaded => HasDocument /\ Len(doc[1]) = Count(file.bytes, "\n")

\* C40: if loading the file named by the process argument fails, the error
\* leaves startup before the loop is entered: no frame is painted, no input
\* event is processed and the terminal is not switched to raw mode.
C40_LoadFailureStopsStartup ==
    (file.given /\ ~file.readable)
        => /\ pc \in {"load", "failed"}
           /\ ~raw_mode
           /\ painted = NothingPainted
           /\ event = NoEvent
           /\ doc = None
           /\ panic = "none"

\* C40 happens: startup has ended on the file that cannot be read
C40_Witness ==
    /\ file = Unreadable
    /\ pc = "failed"
    /\ ~raw_mode

====
